---- MODULE Spec2Model ----
(***************************************************************************)
(* Model of the URL matching pipeline of url_matcher.py: candidate         *)
(* ranking (top_k_candidates), the AI-mediated decision (ai_match), the    *)
(* batch loop (run_matching) and the duplicate annotator                   *)
(* (annotate_duplicates).                                                  *)
(*                                                                         *)
(* Text is a sequence of characters (one-character strings; a Persian      *)
(* letter is written by its name, and a stretch of text the code never     *)
(* looks inside, such as a URL's origin or an error message, is one        *)
(* element).  Scores and confidences are exact rationals: a score is       *)
(* counted in units of 1/6000 and a confidence in hundredths.              *)
(***************************************************************************)
EXTENDS Integers, Sequences, FiniteSets, TLC

VARIABLES old_urls, new_urls, mode, min_confidence, oracle,
          pc, rows, records, history, reruns,
          client, fills, rk, sm, rq

vars == <<old_urls, new_urls, mode, min_confidence, oracle,
          pc, rows, records, history, reruns,
          client, fills, rk, sm, rq>>

\* client: the configuration the AIClient was built from
\* fills:  the fill save_excel_with_styles gave each data row
\* rk, sm, rq: the state of one call of the ranker or classifier, of
\*         parse_multiple_sitemaps and of AIClient.chat_json when these are
\*         run on their own
others == <<client, fills, rk, sm, rq>>

-----------------------------------------------------------------------------
(* Text helpers                                                            *)

Whitespace == {" "}

SetMin(S) == CHOOSE x \in S : \A y \in S : x <= y
SetMax(S) == CHOOSE x \in S : \A y \in S : x >= y

\* str.strip(): drop leading and trailing whitespace
Strip(s) ==
    LET keep == {i \in 1..Len(s) : s[i] \notin Whitespace}
    IN  IF keep = {} THEN <<>> ELSE SubSeq(s, SetMin(keep), SetMax(keep))

\* the first n characters of s (s[:n])
Prefix(s, n) == SubSeq(s, 1, IF Len(s) < n THEN Len(s) ELSE n)

StartsWith(s, p) == Len(s) >= Len(p) /\ SubSeq(s, 1, Len(p)) = p

\* the substring test "kw in s"
Contains(s, kw) ==
    \E i \in 1..(Len(s) - Len(kw) + 1) : SubSeq(s, i, i + Len(kw) - 1) = kw

RECURSIVE SplitAcc(_, _, _, _)
SplitAcc(s, seps, cur, acc) ==
    LET flushed == IF cur = <<>> THEN acc ELSE Append(acc, cur)
    IN  IF s = <<>> THEN flushed
        ELSE IF Head(s) \in seps THEN SplitAcc(Tail(s), seps, <<>>, flushed)
        ELSE SplitAcc(Tail(s), seps, Append(cur, Head(s)), acc)

\* [p for p in s.split(sep) if p]: the non-empty pieces between separators
SplitNonEmpty(s, seps) == SplitAcc(s, seps, <<>>, <<>>)

Range(f) == {f[i] : i \in DOMAIN f}

-----------------------------------------------------------------------------
(* URLs.  A URL is either a bare path or an origin (scheme and host,       *)
(* written as the single leading element Origin) followed by a path.       *)

Origin == "https://example.com"

\* urlparse(url).path
UrlPath(url) == IF url # <<>> /\ Head(url) = Origin THEN Tail(url) ELSE url

extract_segments(url) == SplitNonEmpty(UrlPath(url), {"/"})

extract_slug(url) ==
    LET parts == extract_segments(url)
    IN  IF parts = <<>> THEN <<>> ELSE parts[Len(parts)]

get_primary_segment(url) ==
    LET segments == extract_segments(url)
    IN  IF segments = <<>> THEN <<>> ELSE segments[1]

category_keywords ==
    { <<"c","a","t","e","g","o","r","y">>,
      <<"c","a","t","e","g","o","r","i","e","s">>,
      <<"b","r","a","n","d">>,
      <<"b","r","a","n","d","s">>,
      <<"c","o","l","l","e","c","t","i","o","n">>,
      <<"c","o","l","l","e","c","t","i","o","n","s">>,
      <<"p","r","o","d","u","c","t","-","c","a","t","e","g","o","r","y">>,
      <<"p","r","o","d","u","c","t","-","b","r","a","n","d">>,
      <<"dal","seen","teh","heh">>,
      <<"beh","reh","noon","dal">>,
      <<"meem","jeem","meem","vav","ain","heh">> }

\* The lower-cased path of line 185 is never read: the keyword test runs on
\* the segments as written.
is_category_or_brand_page(url) ==
    LET segments == extract_segments(url)
    IN  \/ \E i \in 1..Len(segments) :
              \E keyword \in category_keywords : Contains(segments[i], keyword)
        \/ (Len(segments) >= 2 /\ Len(segments) <= 3)

tokenize_slug(slug) ==
    LET clean == [i \in 1..Len(slug) |->
                     IF slug[i] \in {"-", "_"} THEN " " ELSE slug[i]]
    IN  SplitNonEmpty(clean, Whitespace)

-----------------------------------------------------------------------------
(* Scoring.  A score s of the source is the integer 6000 * s here, which   *)
(* is exact for every token-set union of at most 8 tokens.                 *)

ScoreOne == 6000
JaccardWeight == 4200
PrefixBonus == 1800
PrefixLen == 4
PrimaryBoost == 1800
CategoryBoost == 1500
SegmentBoost == 600

heuristic_score(old_slug, new_slug) ==
    LET a == Range(tokenize_slug(old_slug))
        b == Range(tokenize_slug(new_slug))
        common == Cardinality(a \cap b)
        union == Cardinality(a \cup b)
        denom == IF union > 1 THEN union ELSE 1
        prefix == IF Prefix(old_slug, PrefixLen) = Prefix(new_slug, PrefixLen)
                  THEN PrefixBonus ELSE 0
    IN  IF a = {} \/ b = {} THEN 0
        ELSE (JaccardWeight * common) \div denom + prefix

segment_aware_score(old_url, new_url, slug_score) ==
    LET old_primary == get_primary_segment(old_url)
        new_primary == get_primary_segment(new_url)
        common_segments ==
            Cardinality(Range(extract_segments(old_url))
                        \cap Range(extract_segments(new_url)))
        s1 == slug_score
              + (IF old_primary # <<>> /\ new_primary # <<>>
                    /\ old_primary = new_primary
                 THEN PrimaryBoost ELSE 0)
        s2 == s1 + (IF is_category_or_brand_page(new_url)
                    THEN CategoryBoost ELSE 0)
        s3 == s2 + (IF common_segments > 1
                    THEN SegmentBoost * common_segments ELSE 0)
    IN  IF s3 < ScoreOne THEN s3 ELSE ScoreOne

\* Mutant of SortDesc: an entry goes before the entries of equal score.
RECURSIVE SortDesc_unstable(_)
SortDesc_unstable(scored) ==
    IF scored = <<>> THEN <<>>
    ELSE LET n == Len(scored)
             x == scored[n]
             front == SortDesc_unstable(SubSeq(scored, 1, n - 1))
             after == {i \in 1..Len(front) : front[i].score <= x.score}
             at == IF after = {} THEN Len(front) + 1 ELSE SetMin(after)
         IN  SubSeq(front, 1, at - 1) \o <<x>> \o SubSeq(front, at, Len(front))

\* list.sort(key=score, reverse=True): descending and stable
RECURSIVE SortDesc(_)
SortDesc(scored) ==
    IF scored = <<>> THEN <<>>
    ELSE LET n == Len(scored)
             x == scored[n]
             front == SortDesc(SubSeq(scored, 1, n - 1))
             after == {i \in 1..Len(front) : front[i].score < x.score}
             at == IF after = {} THEN Len(front) + 1 ELSE SetMin(after)
         IN  SubSeq(front, 1, at - 1) \o <<x>> \o SubSeq(front, at, Len(front))

\* s[:n] of a list
Take(s, n) == SubSeq(s, 1, IF Len(s) < n THEN Len(s) ELSE n)

\* [u for u in pool if get_primary_segment(u) == primary
\*                    and len(extract_segments(u)) == 1]
RECURSIVE SegmentRoots(_, _)
SegmentRoots(pool, primary) ==
    IF pool = <<>> THEN <<>>
    ELSE IF get_primary_segment(Head(pool)) = primary
            /\ Len(extract_segments(Head(pool))) = 1
         THEN <<Head(pool)>> \o SegmentRoots(Tail(pool), primary)
         ELSE SegmentRoots(Tail(pool), primary)

\* Mutant of AppendMissing: a missing fallback is put in front.
RECURSIVE AppendMissing_front(_, _)
AppendMissing_front(candidates, fallbacks) ==
    IF fallbacks = <<>> THEN candidates
    ELSE AppendMissing_front(IF Head(fallbacks) \in Range(candidates)
                             THEN candidates
                             ELSE <<Head(fallbacks)>> \o candidates,
                             Tail(fallbacks))

\* for fallback in fallbacks: if fallback not in candidates: append
RECURSIVE AppendMissing(_, _)
AppendMissing(candidates, fallbacks) ==
    IF fallbacks = <<>> THEN candidates
    ELSE AppendMissing(IF Head(fallbacks) \in Range(candidates) THEN candidates
                       ELSE Append(candidates, Head(fallbacks)),
                       Tail(fallbacks))

MaxFallback == 2

\* Mutant of top_k_candidates: the list is not cut to k after the
\* augmentation.
top_k_candidates_uncapped(old_url, pool, k) ==
    LET old_slug == extract_slug(old_url)
        old_primary == get_primary_segment(old_url)
        scored == [i \in 1..Len(pool) |->
                     [score |-> segment_aware_score(old_url, pool[i],
                                    heuristic_score(old_slug, extract_slug(pool[i]))),
                      url |-> pool[i]]]
        sorted == SortDesc(scored)
        top == Take(sorted, k)
        candidates == [i \in 1..Len(top) |-> top[i].url]
        fallback_urls == SegmentRoots(pool, old_primary)
    IN  IF old_primary # <<>>
        THEN AppendMissing(candidates, Take(fallback_urls, MaxFallback))
        ELSE candidates

top_k_candidates(old_url, pool, k) ==
    LET old_slug == extract_slug(old_url)
        old_primary == get_primary_segment(old_url)
        scored == [i \in 1..Len(pool) |->
                     [score |-> segment_aware_score(old_url, pool[i],
                                    heuristic_score(old_slug, extract_slug(pool[i]))),
                      url |-> pool[i]]]
        sorted == SortDesc(scored)
        top == Take(sorted, k)
        candidates == [i \in 1..Len(top) |-> top[i].url]
        fallback_urls == SegmentRoots(pool, old_primary)
        augmented == IF old_primary # <<>>
                     THEN AppendMissing(candidates, Take(fallback_urls, MaxFallback))
                     ELSE candidates
    IN  Take(augmented, k)

-----------------------------------------------------------------------------
(* JSON values as json.loads builds them, tagged by type: null, a number  *)
(* (counted in hundredths), a string or a list.  Every value carries all   *)
(* three payload fields; only the one its type names is meaningful.        *)

JNull == [t |-> "null", num |-> 0, str |-> <<>>, items |-> <<>>]
JNum(n) == [t |-> "num", num |-> n, str |-> <<>>, items |-> <<>>]
JStr(s) == [t |-> "str", num |-> 0, str |-> s, items |-> <<>>]
JList(l) == [t |-> "list", num |-> 0, str |-> <<>>, items |-> l]

\* the mark of a key that the object does not have
Absent == [t |-> "absent", num |-> 0, str |-> <<>>, items |-> <<>>]

\* The decoded reply: a JSON object seen through the three keys the decision
\* engine reads, or a value of another shape (a list, null).
JObj(best, conf, rationale) ==
    [shape |-> "obj", best_new_url |-> best, confidence |-> conf,
     rationale |-> rationale]
NonMapping(shape) ==
    [shape |-> shape, best_new_url |-> Absent, confidence |-> Absent,
     rationale |-> Absent]

\* Python truth value of a JSON value
Truthy(j) ==
    CASE j.t = "null" -> FALSE
      [] j.t = "num" -> j.num # 0
      [] j.t = "str" -> j.str # <<>>
      [] j.t = "list" -> j.items # <<>>

\* x or default
OrElse(j, default) == IF Truthy(j) THEN j ELSE default

\* dict.get(key): None when the key is absent
Get(m, key) == IF m[key] = Absent THEN JNull ELSE m[key]

Digits == <<"0", "1", "2", "3", "4", "5", "6", "7", "8", "9">>
IsDigit(c) == \E d \in 1..Len(Digits) : Digits[d] = c
DigitValue(c) == (CHOOSE d \in 1..Len(Digits) : Digits[d] = c) - 1

\* repr of a non-negative float with at most two decimals: 0.5, 0.95, 1.0
FormatFloat(h) ==
    LET whole == h \div 100
        frac == h % 100
    IN  <<Digits[whole + 1], ".", Digits[(frac \div 10) + 1]>>
        \o (IF frac % 10 = 0 THEN <<>> ELSE <<Digits[(frac % 10) + 1]>>)

\* str(x) for the values the decision engine passes to it
Str(j) == CASE j.t = "str" -> j.str
            [] j.t = "num" -> FormatFloat(j.num)

\* float(x): a number as it is, a string parsed (d, d.d or d.dd after
\* stripping), ValueError for any other string, TypeError for a list
Float(j) ==
    CASE j.t = "num" -> [exc |-> "", val |-> j.num]
      [] j.t = "str" ->
           LET s == Strip(j.str)
           IN  IF Len(s) = 1 /\ IsDigit(s[1])
               THEN [exc |-> "", val |-> 100 * DigitValue(s[1])]
               ELSE IF Len(s) \in {3, 4} /\ s[2] = "." /\ IsDigit(s[1])
                       /\ \A i \in 3..Len(s) : IsDigit(s[i])
               THEN [exc |-> "",
                     val |-> 100 * DigitValue(s[1]) + 10 * DigitValue(s[3])
                             + (IF Len(s) = 4 THEN DigitValue(s[4]) ELSE 0)]
               ELSE [exc |-> "ValueError", val |-> 0]
      [] OTHER -> [exc |-> "TypeError", val |-> 0]

-----------------------------------------------------------------------------
(* ai_match.  chat_json either raises AIClientError (with a message) or    *)
(* returns whatever JSON value the model's reply decoded to.               *)

Raises(msg) == [kind |-> "raise", msg |-> msg, result |-> NonMapping("none")]
Returns(j) == [kind |-> "return", msg |-> <<>>, result |-> j]

FallbackPrefix == <<"f","a","l","l","b","a","c","k",":"," ">>

\* str(e) of the ValueError float() raises
ValueErrorText == <<"could not convert string to float">>

\* Mutant of fallback_match: the except branch forgets the first candidate.
fallback_match_empty(candidates, e) ==
    [best_new_url |-> <<>>,
     confidence |-> 0,
     rationale |-> FallbackPrefix \o e]

\* line 324: the except branch
fallback_match(candidates, e) ==
    [best_new_url |-> IF candidates # <<>> THEN candidates[1] ELSE <<>>,
     confidence |-> 0,
     rationale |-> FallbackPrefix \o e]

\* line 317
parse_best(result) == Strip(Str(OrElse(Get(result, "best_new_url"), JStr(<<>>))))

\* line 318
parse_confidence(result) == Float(OrElse(Get(result, "confidence"), JNum(0)))

\* line 319
parse_rationale(result) == Strip(Str(OrElse(Get(result, "rationale"), JStr(<<>>))))

\* Mutant of validate_best: the oracle's choice is trusted as it is.
validate_best_trusting(best, candidates) == best

\* lines 320-321
validate_best(best, candidates) ==
    IF best \notin Range(candidates) /\ candidates # <<>>
    THEN candidates[1] ELSE best

\* Mutant of ai_match: a confidence float() rejects is read as 0.0 and the
\* rest of the answer is used.
ai_match_lenient(outcome, candidates) ==
    LET none == [best_new_url |-> <<>>, confidence |-> 0, rationale |-> <<>>]
    IN  IF outcome.kind = "raise"
        THEN [exc |-> "", match |-> fallback_match(candidates, outcome.msg)]
        ELSE IF outcome.result.shape # "obj"
        THEN [exc |-> "AttributeError", match |-> none]
        ELSE LET result == outcome.result
                 conf == parse_confidence(result)
             IN  IF conf.exc = "TypeError"
                 THEN [exc |-> conf.exc, match |-> none]
                 ELSE [exc |-> "",
                       match |-> [best_new_url |->
                                      validate_best(parse_best(result), candidates),
                                  confidence |-> conf.val,
                                  rationale |-> parse_rationale(result)]]

\* The value ai_match returns, or the exception that leaves it: exc is ""
\* when it returns.  AttributeError (result.get on a non-mapping) and
\* TypeError (float of a list) are not caught by line 323.
ai_match(outcome, candidates) ==
    LET none == [best_new_url |-> <<>>, confidence |-> 0, rationale |-> <<>>]
    IN  IF outcome.kind = "raise"
        THEN [exc |-> "", match |-> fallback_match(candidates, outcome.msg)]
        ELSE IF outcome.result.shape # "obj"
        THEN [exc |-> "AttributeError", match |-> none]
        ELSE LET result == outcome.result
                 best == parse_best(result)
                 conf == parse_confidence(result)
             IN  IF conf.exc = "ValueError"
                 THEN [exc |-> "",
                       match |-> fallback_match(candidates, ValueErrorText)]
                 ELSE IF conf.exc # ""
                 THEN [exc |-> conf.exc, match |-> none]
                 ELSE [exc |-> "",
                       match |-> [best_new_url |-> validate_best(best, candidates),
                                  confidence |-> conf.val,
                                  rationale |-> parse_rationale(result)]]

-----------------------------------------------------------------------------
(* run_matching and annotate_duplicates                                    *)

TestCap == 20
K == 20

\* f" | below_min_confidence<{min_confidence}>"
BelowSuffix(min_conf) ==
    <<" ", "|", " ", "below_min_confidence", "<">> \o FormatFloat(min_conf) \o <<">">>

\* lines 333-353: the record appended for one old URL
\* Mutant of make_record: a confidence equal to the threshold counts as low.
make_record_inclusive(old_url, match, candidates, min_conf) ==
    LET low_conf == match.confidence <= min_conf
    IN  [old_url |-> old_url,
         old_segment |-> get_primary_segment(old_url),
         best_new_url |-> match.best_new_url,
         new_segment |-> get_primary_segment(match.best_new_url),
         is_category_page |-> is_category_or_brand_page(match.best_new_url),
         confidence |-> match.confidence,
         low_confidence |-> low_conf,
         rationale |-> IF low_conf
                       THEN Strip(match.rationale \o BelowSuffix(min_conf))
                       ELSE match.rationale,
         candidates |-> candidates,
         source_dup_of |-> <<>>,
         dest_dup_of |-> <<>>]

make_record(old_url, match, candidates, min_conf) ==
    LET low_conf == match.confidence < min_conf
    IN  [old_url |-> old_url,
         old_segment |-> get_primary_segment(old_url),
         best_new_url |-> match.best_new_url,
         new_segment |-> get_primary_segment(match.best_new_url),
         is_category_page |-> is_category_or_brand_page(match.best_new_url),
         confidence |-> match.confidence,
         low_confidence |-> low_conf,
         rationale |-> IF low_conf
                       THEN Strip(match.rationale \o BelowSuffix(min_conf))
                       ELSE match.rationale,
         candidates |-> candidates,
         source_dup_of |-> <<>>,
         dest_dup_of |-> <<>>]

\* str(first + 2): the spreadsheet row of the 0-based index first
RowRef(first) == <<first + 2>>

EmptyMap == [u \in {} |-> 0]

\* Mutant of AnnotateFrom: the maps remember the last row seen, not the
\* first.
RECURSIVE AnnotateFrom_last_seen(_, _, _, _, _)
AnnotateFrom_last_seen(df, i, first_idx_for_old, first_idx_for_new, out) ==
    IF i >= Len(df) THEN out
    ELSE LET row == df[i + 1]
             old == row.old_url
             new == row.best_new_url
             old_seen == old \in DOMAIN first_idx_for_old
             new_seen == new \in DOMAIN first_idx_for_new
             annotated ==
                 [row EXCEPT
                    !.source_dup_of = IF old_seen THEN RowRef(first_idx_for_old[old])
                                      ELSE <<>>,
                    !.dest_dup_of = IF new # <<>> /\ new_seen
                                    THEN RowRef(first_idx_for_new[new])
                                    ELSE <<>>]
         IN  AnnotateFrom_last_seen(df, i + 1,
                 (old :> i) @@ first_idx_for_old,
                 IF new # <<>> THEN (new :> i) @@ first_idx_for_new
                 ELSE first_idx_for_new,
                 Append(out, annotated))

\* lines 367-380: the pass over rows i (0-based) .. end, with the two
\* first-seen maps, building the annotated rows in out
RECURSIVE AnnotateFrom(_, _, _, _, _)
AnnotateFrom(df, i, first_idx_for_old, first_idx_for_new, out) ==
    IF i >= Len(df) THEN out
    ELSE LET row == df[i + 1]
             old == row.old_url
             new == row.best_new_url
             old_seen == old \in DOMAIN first_idx_for_old
             new_seen == new \in DOMAIN first_idx_for_new
             annotated ==
                 [row EXCEPT
                    !.source_dup_of = IF old_seen THEN RowRef(first_idx_for_old[old])
                                      ELSE <<>>,
                    !.dest_dup_of = IF new # <<>> /\ new_seen
                                    THEN RowRef(first_idx_for_new[new])
                                    ELSE <<>>]
         IN  AnnotateFrom(df, i + 1,
                 IF old_seen THEN first_idx_for_old
                 ELSE (old :> i) @@ first_idx_for_old,
                 IF new # <<>> /\ ~new_seen
                 THEN (new :> i) @@ first_idx_for_new
                 ELSE first_idx_for_new,
                 Append(out, annotated))

\* Mutant of annotate_duplicates: the two columns are not reset, and a
\* reference is added to what the column already holds.
RECURSIVE AnnotateKeepingFrom(_, _, _, _, _)
AnnotateKeepingFrom(df, i, first_idx_for_old, first_idx_for_new, out) ==
    IF i >= Len(df) THEN out
    ELSE LET row == df[i + 1]
             old == row.old_url
             new == row.best_new_url
             old_seen == old \in DOMAIN first_idx_for_old
             new_seen == new \in DOMAIN first_idx_for_new
             annotated ==
                 [row EXCEPT
                    !.source_dup_of = IF old_seen
                                      THEN @ \o RowRef(first_idx_for_old[old])
                                      ELSE @,
                    !.dest_dup_of = IF new # <<>> /\ new_seen
                                    THEN @ \o RowRef(first_idx_for_new[new])
                                    ELSE @]
         IN  AnnotateKeepingFrom(df, i + 1,
                 IF old_seen THEN first_idx_for_old
                 ELSE (old :> i) @@ first_idx_for_old,
                 IF new # <<>> /\ ~new_seen
                 THEN (new :> i) @@ first_idx_for_new
                 ELSE first_idx_for_new,
                 Append(out, annotated))

annotate_duplicates_keeping(df) ==
    AnnotateKeepingFrom(df, 0, EmptyMap, EmptyMap, <<>>)

\* Both columns are reset (lines 361-362) before the pass, so whatever they
\* held is not read.
annotate_duplicates(df) == AnnotateFrom(df, 0, EmptyMap, EmptyMap, <<>>)

-----------------------------------------------------------------------------
(* Inputs                                                                  *)

OldPost == <<"/","b","l","o","g","/","m","y","-","p","o","s","t">>
OldWidget == <<Origin, "/","s","h","o","p","/","w","i","d","g","e","t","-","1">>
NewPost == <<"/","b","l","o","g","/","m","y","-","p","o","s","t","-","v","2">>
NewWidget == <<"/","s","h","o","p","/","w","i","d","g","e","t">>
NewBlog == <<"/","b","l","o","g">>
NotOffered == <<"/","n","o","t","/","o","f","f","e","r","e","d">>

OldUrlSet == {OldPost, OldWidget}
Pools == {<<>>, <<NewBlog>>, <<NewWidget, NewPost>>}

MaxOld == 2
MaxOver == 1
MaxReruns == 1

\* every list of at most n old URLs
RECURSIVE ListsUpTo(_)
ListsUpTo(n) ==
    IF n = 0 THEN {<<>>}
    ELSE LET shorter == ListsUpTo(n - 1)
         IN  shorter \cup {Append(l, u) : l \in shorter, u \in OldUrlSet}

\* /blog/px, /blog/pxx, ...: one page per i
Page(i) == <<"/","b","l","o","g","/","p">> \o [j \in 1..i |-> "x"]

\* a list of n pages that repeats after period entries
Cycle(n, period) == [i \in 1..n |-> Page(((i - 1) % period) + 1)]

LongLists ==
    {Cycle(n, p) : n \in {3} \cup ((TestCap - 1)..(TestCap + MaxOver)), p \in {2, 3, 30}}

Text(word) == <<word>>
SameTopic == <<"s","a","m","e"," ","t","o","p","i","c">>

\* --min-confidence: 0 turns the mark off, 0.5 is the default of the
\* command line, 0.95 is above what the scripted oracles report
Thresholds == {0, 50, 95}

Reply(best, conf, rationale) == Returns(JObj(best, conf, rationale))

\* What chat_json may do for one call.  The oracle "any" is unconstrained
\* within the shapes below; the others answer every call the same way.
ChatJsonOutcomes(behaviour, candidates) ==
    LET first == IF candidates # <<>> THEN candidates[1] ELSE NotOffered
        last == IF candidates # <<>> THEN candidates[Len(candidates)]
                ELSE NotOffered
        failure == Raises(Text("AI request failed after 3 retries"))
        good == JNum(90)
        why == JStr(SameTopic)
    IN  CASE behaviour = "down" -> {failure}
          [] behaviour = "echo" -> {Reply(JStr(first), good, why)}
          [] behaviour = "stray" -> {Reply(JStr(NotOffered), JNum(80), Absent)}
          [] behaviour = "garbled" -> {Returns(NonMapping("list"))}
          [] behaviour = "any" ->
               {failure, Returns(NonMapping("list")), Returns(NonMapping("null"))}
               \cup {Reply(b, good, why) :
                       b \in {JStr(u) : u \in Range(candidates)}
                             \cup {Absent, JStr(<<>>), JStr(NotOffered),
                                   JStr(<<" ">> \o last \o <<" ">>)}}
               \cup {Reply(JStr(last), c, why) :
                       c \in {Absent, JNum(150), JNum(0 - 50),
                              JStr(<<"h","i","g","h">>), JStr(<<"0",".","4">>),
                              JList(<<90>>)}}
               \cup {Reply(JStr(last), good, r) :
                       r \in {Absent, JStr(<<" ">> \o SameTopic \o <<" ">>)}}

-----------------------------------------------------------------------------
(* AIClient: configuration                                                 *)

DefaultRetries == 3

\* What AIClient.__init__ keeps of the configuration.  key, model and url
\* say whether the provider's credential, its model (for azure the
\* deployment) and its endpoint are set; __init__ reads them and checks
\* nothing.
AIClient(provider, key, model, url, max_retries) ==
    [provider |-> provider, key |-> key, model |-> model, url |-> url,
     max_retries |-> max_retries]

DefaultClient == AIClient("openai", TRUE, TRUE, TRUE, DefaultRetries)

CompatibleProviders == {"openai_compatible", "local", "compatible", "liara"}

NoError == <<>>

\* The AIClientError chat_json raises before any request is made, NoError
\* when the request is made: the dispatch of lines 78-86 and the checks at
\* the head of _chat_openai, _chat_azure, _chat_anthropic and
\* _chat_openai_compatible.
config_error(c) ==
    CASE c.provider = "openai" ->
           IF ~c.key THEN Text("Missing OpenAI API key")
           ELSE IF ~c.model THEN Text("Missing OpenAI model in config")
           ELSE NoError
      [] c.provider = "azure" ->
           IF ~(c.url /\ c.key /\ c.model)
           THEN Text("Missing Azure OpenAI settings: endpoint/api_key/deployment")
           ELSE NoError
      [] c.provider = "anthropic" ->
           IF ~c.key THEN Text("Missing Anthropic API key")
           ELSE IF ~c.model THEN Text("Missing Anthropic model in config")
           ELSE NoError
      [] c.provider \in CompatibleProviders ->
           IF ~c.url
           THEN Text("Missing compatible_base_url for OpenAI-compatible provider")
           ELSE IF ~c.model THEN Text("Missing model in config")
           ELSE NoError
      [] OTHER -> Text("Unsupported provider")

\* chat_json as run_matching sees it: the configuration error if there is
\* one, otherwise whatever the request and the service behind it produce
chat_json(c, behaviour, candidates) ==
    IF config_error(c) # NoError THEN {Raises(config_error(c))}
    ELSE ChatJsonOutcomes(behaviour, candidates)

Idle == "idle"

-----------------------------------------------------------------------------
(* The batch                                                               *)

Init ==
    /\ \/ /\ oracle = "any"
          /\ old_urls \in ListsUpTo(MaxOld)
          /\ min_confidence = 50
       \/ /\ oracle \in {"down", "echo", "stray", "garbled"}
          /\ old_urls \in LongLists
          /\ min_confidence \in Thresholds
    /\ new_urls \in Pools
    /\ mode \in {"test", "full"}
    /\ pc = "start"
    /\ rows = <<>>
    /\ records = <<>>
    /\ history = <<>>
    /\ reruns = 0
    /\ client = DefaultClient
    /\ fills = <<>>
    /\ rk = Idle
    /\ sm = Idle
    /\ rq = Idle

\* line 328
Truncate ==
    /\ pc = "start"
    /\ rows' = IF mode = "test" THEN Take(old_urls, TestCap) ELSE old_urls
    /\ pc' = "loop"
    /\ UNCHANGED <<old_urls, new_urls, mode, min_confidence, oracle,
                   records, history, reruns, others>>

\* one call of ai_match for the next row, as the history keeps it
Call(old_url, candidates, outcome) ==
    LET r == ai_match(outcome, candidates)
    IN  [old_url |-> old_url, candidates |-> candidates, outcome |-> outcome,
         exc |-> r.exc, match |-> r.match]

\* lines 330-354: one iteration in which ai_match returns
MatchRow ==
    /\ pc = "loop"
    /\ Len(records) < Len(rows)
    /\ \E old_url \in {rows[Len(records) + 1]} :
         \E candidates \in {top_k_candidates(old_url, new_urls, K)} :
           \E outcome \in chat_json(client, oracle, candidates) :
             \E call \in {Call(old_url, candidates, outcome)} :
                /\ call.exc = ""
                /\ records' = Append(records,
                      make_record(old_url, call.match, candidates, min_confidence))
                /\ history' = Append(history, call)
    /\ UNCHANGED <<old_urls, new_urls, mode, min_confidence, oracle,
                   pc, rows, reruns, others>>

\* lines 330-332: an iteration in which an exception leaves ai_match, and
\* with it run_matching
MatchRowRaises ==
    /\ pc = "loop"
    /\ Len(records) < Len(rows)
    /\ \E old_url \in {rows[Len(records) + 1]} :
         \E candidates \in {top_k_candidates(old_url, new_urls, K)} :
           \E outcome \in chat_json(client, oracle, candidates) :
             \E call \in {Call(old_url, candidates, outcome)} :
                /\ call.exc # ""
                /\ history' = Append(history, call)
    /\ pc' = "raised"
    /\ UNCHANGED <<old_urls, new_urls, mode, min_confidence, oracle,
                   rows, records, reruns, others>>

\* lines 355-356: the loop is over, the records are annotated and returned
Finish ==
    /\ pc = "loop"
    /\ Len(records) = Len(rows)
    /\ records' = annotate_duplicates(records)
    /\ pc' = "done"
    /\ UNCHANGED <<old_urls, new_urls, mode, min_confidence, oracle,
                   rows, history, reruns, others>>

\* annotate_duplicates applied again to the records it returned
Reannotate ==
    /\ pc = "done"
    /\ reruns < MaxReruns
    /\ records' = annotate_duplicates(records)
    /\ reruns' = reruns + 1
    /\ UNCHANGED <<old_urls, new_urls, mode, min_confidence, oracle,
                   pc, rows, history, others>>

Next == Truncate \/ MatchRow \/ MatchRowRaises \/ Finish \/ Reannotate

Spec == Init /\ [][Next]_vars

-----------------------------------------------------------------------------
(* The ranker and the classifier on their own                              *)

batch == <<old_urls, new_urls, mode, min_confidence, oracle,
           pc, rows, records, history, reruns>>

\* no batch is running
NoBatch ==
    /\ old_urls = <<>>
    /\ new_urls = <<>>
    /\ mode = "full"
    /\ min_confidence = 0
    /\ oracle = "down"
    /\ pc = Idle
    /\ rows = <<>>
    /\ records = <<>>
    /\ history = <<>>
    /\ reruns = 0

SiteRoot == <<"/">>
UpperBrands == <<"/","B","r","a","n","d","s">>
LowerBrands == <<"/","b","r","a","n","d","s">>
DeepUpper == <<"/","s","h","o","p","/","C","A","T","E","G","O","R","Y","/","x","/","y">>
DeepLower == <<"/","s","h","o","p","/","c","a","t","e","g","o","r","y","/","x","/","y">>
DeepPlain == <<"/","a","/","b","/","c","/","d">>
NewShop == <<"/","s","h","o","p">>

RankUrls ==
    {OldPost, OldWidget, Page(1), SiteRoot, NewBlog,
     UpperBrands, LowerBrands, DeepUpper, DeepLower, DeepPlain}

MaxK == 3

BigPool == [i \in 1..(K + MaxOver) |-> Page(i)] \o <<NewBlog>>

RankPools ==
    {<<>>, <<NewBlog>>, <<NewWidget, NewPost>>,
     <<NewWidget, NewPost, NewBlog>>,
     <<Page(2), NewShop, Page(1), NewBlog, NewPost>>,
     <<NewBlog, NewPost, NewBlog, Page(1)>>,
     <<NewShop, NewWidget, LowerBrands, UpperBrands>>}

RankInput(url, pool, k) ==
    [op |-> "input", url |-> url, pool |-> pool, k |-> k,
     shortlist |-> <<>>, flag |-> FALSE]

InitPure ==
    /\ NoBatch
    /\ client = DefaultClient
    /\ fills = <<>>
    /\ sm = Idle
    /\ rq = Idle
    /\ rk \in {RankInput(u, p, k) : u \in RankUrls, p \in RankPools, k \in 0..MaxK}
              \cup {RankInput(u, BigPool, K) : u \in RankUrls}

\* top_k_candidates(old_url, new_urls, k)
Rank ==
    /\ rk.op = "input"
    /\ rk' = [rk EXCEPT !.op = "ranked",
                        !.shortlist = top_k_candidates(rk.url, rk.pool, rk.k)]
    /\ UNCHANGED <<batch, client, fills, sm, rq>>

\* is_category_or_brand_page(url)
Classify ==
    /\ rk.op = "input"
    /\ rk' = [rk EXCEPT !.op = "classified",
                        !.flag = is_category_or_brand_page(rk.url)]
    /\ UNCHANGED <<batch, client, fills, sm, rq>>

NextPure == Rank \/ Classify

SpecPure == InitPure /\ [][NextPure]_vars

-----------------------------------------------------------------------------
(* main and interactive_flow: the client is built and tested, the batch    *)
(* runs, the workbook is saved                                             *)

Red == "FFC7CE"
Yellow == "FFFFE0"
Orange == "FFE5CC"
NoFill == "none"

\* what load_workbook reads back from a text cell to_excel wrote: an empty
\* string comes back as an empty cell
ExcelCell(text) == IF text = <<>> THEN JNull ELSE JStr(text)

\* Mutant of highlight: the destination duplicate is tested first.
highlight_dest_first(record) ==
    LET source_dup_val == ExcelCell(record.source_dup_of)
        dest_dup_val == ExcelCell(record.dest_dup_of)
        lowc_val == record.low_confidence
    IN  IF Truthy(dest_dup_val) THEN Yellow
        ELSE IF Truthy(source_dup_val) THEN Red
        ELSE IF lowc_val = TRUE THEN Orange
        ELSE NoFill

\* lines 397-409: the fill of one data row, put on every cell of the row
highlight(record) ==
    LET source_dup_val == ExcelCell(record.source_dup_of)
        dest_dup_val == ExcelCell(record.dest_dup_of)
        lowc_val == record.low_confidence
    IN  IF Truthy(source_dup_val) THEN Red
        ELSE IF Truthy(dest_dup_val) THEN Yellow
        ELSE IF lowc_val = TRUE THEN Orange
        ELSE NoFill

\* AIClient.test_connection is called at lines 539 and 607 and is not part
\* of src/ai_client.py.  It is taken to make one request through
\* chat_json and to report whether that request succeeded: a configuration
\* error makes it fail, and so does a service that cannot be reached.
test_connection(c, reachable) == config_error(c) = NoError /\ reachable

Clients ==
    {DefaultClient,
     AIClient("openai", FALSE, TRUE, TRUE, DefaultRetries),
     AIClient("openai", TRUE, FALSE, TRUE, DefaultRetries),
     AIClient("azure", TRUE, TRUE, TRUE, DefaultRetries),
     AIClient("azure", TRUE, FALSE, TRUE, DefaultRetries),
     AIClient("anthropic", FALSE, TRUE, TRUE, DefaultRetries),
     AIClient("liara", FALSE, TRUE, TRUE, DefaultRetries),
     AIClient("liara", TRUE, TRUE, FALSE, DefaultRetries),
     AIClient("gemini", TRUE, TRUE, TRUE, DefaultRetries)}

InitMain ==
    /\ pc \in {"main", "wizard"}
    /\ client \in Clients
    /\ oracle \in {"down", "echo", "stray", "garbled"}
    /\ old_urls \in {Cycle(3, 2), Cycle(3, 3)}
    /\ new_urls \in Pools
    /\ mode = "full"
    /\ min_confidence \in Thresholds
    /\ rows = <<>>
    /\ records = <<>>
    /\ history = <<>>
    /\ reruns = 0
    /\ fills = <<>>
    /\ rk = Idle
    /\ sm = Idle
    /\ rq = Idle

\* main, lines 604-609: AIClient(ai_config), then the connection test, which
\* ends the program with exit status 3 when it fails
MainConnect ==
    /\ pc = "main"
    /\ \E reachable \in BOOLEAN :
         pc' = IF test_connection(client, reachable) THEN "start" ELSE "exit"
    /\ UNCHANGED <<old_urls, new_urls, mode, min_confidence, oracle,
                   rows, records, history, reruns, others>>

\* interactive_flow, lines 536-551: the same test; a failure leads to the
\* question "Continue anyway?"
WizardConnect ==
    /\ pc = "wizard"
    /\ \E reachable \in BOOLEAN :
         pc' = IF test_connection(client, reachable) THEN "start" ELSE "ask"
    /\ UNCHANGED <<old_urls, new_urls, mode, min_confidence, oracle,
                   rows, records, history, reruns, others>>

\* lines 544-550: "y" or "yes" goes on to the batch, any other answer and
\* the end of input leave
WizardAnswer ==
    /\ pc = "ask"
    /\ \E cont \in {"y", "yes", "n", ""} :
         pc' = IF cont \in {"y", "yes"} THEN "start" ELSE "exit"
    /\ UNCHANGED <<old_urls, new_urls, mode, min_confidence, oracle,
                   rows, records, history, reruns, others>>

\* save_excel_with_styles(df, out_path), lines 563-564 and 638-641
Save ==
    /\ pc = "done"
    /\ fills' = [i \in 1..Len(records) |-> highlight(records[i])]
    /\ pc' = "saved"
    /\ UNCHANGED <<old_urls, new_urls, mode, min_confidence, oracle,
                   rows, records, history, reruns, client, rk, sm, rq>>

NextMain ==
    \/ MainConnect \/ WizardConnect \/ WizardAnswer
    \/ Truncate \/ MatchRow \/ MatchRowRaises \/ Finish
    \/ Save

SpecMain == InitMain /\ [][NextMain]_vars

-----------------------------------------------------------------------------
(* parse_multiple_sitemaps                                                 *)

\* urllib.parse.unquote on the escapes the inputs use
PercentCodes == <<"2", "0">> :> " " @@ <<"2", "D">> :> "-"

RECURSIVE unquote(_)
unquote(s) ==
    IF s = <<>> THEN <<>>
    ELSE IF Len(s) >= 3 /\ s[1] = "%" /\ <<s[2], s[3]>> \in DOMAIN PercentCodes
         THEN <<PercentCodes[<<s[2], s[3]>>]>> \o unquote(SubSeq(s, 4, Len(s)))
         ELSE <<s[1]>> \o unquote(Tail(s))

\* A sitemap file: whether ET.parse accepts it, and the text of the <loc>
\* of each of its <url> elements (empty for a missing or empty <loc>).
SitemapFile(wellformed, locs) == [wellformed |-> wellformed, locs |-> locs]

\* lines 44-48: the URLs of a file ET.parse accepted
RECURSIVE LocUrls(_)
LocUrls(locs) ==
    IF locs = <<>> THEN <<>>
    ELSE IF Head(locs) # <<>>
         THEN <<unquote(Strip(Head(locs)))>> \o LocUrls(Tail(locs))
         ELSE LocUrls(Tail(locs))

\* parse_sitemap_urls: the URLs, or the exception ET.parse raised
parse_sitemap_urls(file) ==
    IF file.wellformed THEN [exc |-> "", urls |-> LocUrls(file.locs)]
    ELSE [exc |-> "ParseError", urls |-> <<>>]

\* Mutant of unique: the last occurrence of a URL is kept, not the first.
RECURSIVE unique_last(_)
unique_last(all_urls) ==
    IF all_urls = <<>> THEN <<>>
    ELSE LET n == Len(all_urls)
             front == unique_last(SubSeq(all_urls, 1, n - 1))
             kept == SelectSeq(front, LAMBDA u : u # all_urls[n])
         IN  Append(kept, all_urls[n])

\* lines 58-64: the URLs not seen before, in order
RECURSIVE unique(_)
unique(all_urls) ==
    IF all_urls = <<>> THEN <<>>
    ELSE LET n == Len(all_urls)
             front == unique(SubSeq(all_urls, 1, n - 1))
         IN  IF all_urls[n] \in Range(front) THEN front
             ELSE Append(front, all_urls[n])

Padded(text) == <<" ">> \o text \o <<" ">>
EscapedPost == <<"/","b","l","o","g","/","m","y","%","2","D","p","o","s","t","%","2","D","v","2">>
NoLoc == <<>>

SitemapFiles ==
    {SitemapFile(TRUE, <<NewBlog, NewShop>>),
     SitemapFile(TRUE, <<Padded(NewShop), EscapedPost, NewBlog>>),
     SitemapFile(FALSE, <<NewWidget, NewBlog>>),
     SitemapFile(TRUE, <<NoLoc, NewPost, NewPost>>),
     SitemapFile(TRUE, <<>>)}

MaxFiles == 3

RECURSIVE PathLists(_)
PathLists(n) ==
    IF n = 0 THEN {<<>>}
    ELSE LET shorter == PathLists(n - 1)
         IN  shorter \cup {Append(l, f) : l \in shorter, f \in SitemapFiles}

InitSitemaps ==
    /\ NoBatch
    /\ client = DefaultClient
    /\ fills = <<>>
    /\ rk = Idle
    /\ rq = Idle
    /\ sm \in {[pc |-> "loop", sitemap_paths |-> paths, done |-> 0,
                all_urls |-> <<>>, unique_urls |-> <<>>, failed |-> {}] :
                  paths \in PathLists(MaxFiles)}

\* lines 53-56: the next file parses and its URLs are added
ParseFile ==
    /\ sm.pc = "loop"
    /\ sm.done < Len(sm.sitemap_paths)
    /\ \E r \in {parse_sitemap_urls(sm.sitemap_paths[sm.done + 1])} :
         /\ r.exc = ""
         /\ sm' = [sm EXCEPT !.done = @ + 1, !.all_urls = @ \o r.urls]
    /\ UNCHANGED <<batch, client, fills, rk, rq>>

\* lines 53-57: the next file raises; the error is logged and the loop
\* goes on
ParseFails ==
    /\ sm.pc = "loop"
    /\ sm.done < Len(sm.sitemap_paths)
    /\ \E r \in {parse_sitemap_urls(sm.sitemap_paths[sm.done + 1])} :
         /\ r.exc # ""
         /\ sm' = [sm EXCEPT !.done = @ + 1, !.failed = @ \cup {sm.done + 1}]
    /\ UNCHANGED <<batch, client, fills, rk, rq>>

\* lines 58-65: the loop is over, the URLs are deduplicated and returned
Dedupe ==
    /\ sm.pc = "loop"
    /\ sm.done = Len(sm.sitemap_paths)
    /\ sm' = [sm EXCEPT !.pc = "returned", !.unique_urls = unique(sm.all_urls)]
    /\ UNCHANGED <<batch, client, fills, rk, rq>>

NextSitemaps == ParseFile \/ ParseFails \/ Dedupe

SpecSitemaps == InitSitemaps /\ [][NextSitemaps]_vars

-----------------------------------------------------------------------------
(* AIClient.chat_json: one call, attempt by attempt                        *)

\* What one POST brings back: the exception requests raised (net), or the
\* status, whether the body is JSON, whether it has choices[0].message, and
\* what the message content is.
Response(net, status, json, choices, content) ==
    [net |-> net, status |-> status, json |-> json, choices |-> choices,
     content |-> content]

HttpOk == 200
HttpError == 400
HttpUnavailable == 503

Responses ==
    {Response("ConnectionError", HttpOk, TRUE, TRUE, "object"),
     Response("Timeout", HttpOk, TRUE, TRUE, "object"),
     Response("", HttpError, TRUE, TRUE, "object"),
     Response("", HttpUnavailable, FALSE, FALSE, "prose"),
     Response("", HttpOk, FALSE, FALSE, "prose"),
     Response("", HttpOk, TRUE, FALSE, "object"),
     Response("", HttpOk, TRUE, TRUE, "object"),
     Response("", HttpOk, TRUE, TRUE, "list"),
     Response("", HttpOk, TRUE, TRUE, "fenced"),
     Response("", HttpOk, TRUE, TRUE, "broken"),
     Response("", HttpOk, TRUE, TRUE, "prose"),
     Response("", HttpOk, TRUE, TRUE, "null")}

Decoded == JObj(JStr(NewBlog), JNum(90), JStr(SameTopic))

\* lines 220-229.  The content is a JSON object, a JSON list, a JSON object
\* inside other text ("fenced"), text with braces around something that is
\* not JSON ("broken"), text without braces ("prose") or None ("null").
_ensure_json(content) ==
    CASE content = "object" -> [exc |-> "", result |-> Decoded]
      [] content = "list" -> [exc |-> "", result |-> NonMapping("list")]
      [] content = "fenced" -> [exc |-> "", result |-> Decoded]
      [] content = "broken" -> [exc |-> "JSONDecodeError", result |-> NonMapping("none")]
      [] content = "prose" -> [exc |-> "AIClientError", result |-> NonMapping("none")]
      [] content = "null" -> [exc |-> "TypeError", result |-> NonMapping("none")]

\* lines 110-116 (and 146-152, 178-184, 209-216): one request
_do(response) ==
    IF response.net # ""
    THEN [exc |-> response.net, result |-> NonMapping("none")]
    ELSE IF response.status >= HttpError
    THEN [exc |-> "AIClientError", result |-> NonMapping("none")]
    ELSE IF ~response.json
    THEN [exc |-> "JSONDecodeError", result |-> NonMapping("none")]
    ELSE IF ~response.choices
    THEN [exc |-> "KeyError", result |-> NonMapping("none")]
    ELSE _ensure_json(response.content)

\* Mutant of attempts_left: one attempt more than max_retries.
attempts_left_inclusive(c, attempt) == attempt <= c.max_retries

\* line 68: for attempt in range(self.max_retries)
attempts_left(c, attempt) == attempt < c.max_retries

MaxRetries == 3

RetryClients ==
    {AIClient(provider, key, TRUE, TRUE, n) :
        provider \in {"openai", "gemini"}, key \in BOOLEAN, n \in 0..MaxRetries}

\* rq.log holds, for each invocation of the request function so far, the
\* exception it raised ("" when it returned)
InitClient ==
    /\ NoBatch
    /\ fills = <<>>
    /\ rk = Idle
    /\ sm = Idle
    /\ client \in RetryClients
    /\ rq = [pc |-> "call", log |-> <<>>, exc |-> "",
             result |-> NonMapping("none")]

\* lines 78-92: the provider is unknown or its settings are missing, and
\* chat_json raises before any request
Refuse ==
    /\ rq.pc = "call"
    /\ config_error(client) # NoError
    /\ rq' = [rq EXCEPT !.pc = "raised", !.exc = "AIClientError"]
    /\ UNCHANGED <<batch, client, fills, rk, sm>>

\* lines 78-118 and 66-68: the request is prepared and _retry_loop entered;
\* with no attempt to make the loop is over at once (line 75)
Enter ==
    /\ rq.pc = "call"
    /\ config_error(client) = NoError
    /\ rq' = IF attempts_left(client, 0) THEN [rq EXCEPT !.pc = "retry"]
             ELSE [rq EXCEPT !.pc = "raised", !.exc = "AIClientError"]
    /\ UNCHANGED <<batch, client, fills, rk, sm>>

\* lines 69-70: an attempt returns, and chat_json with it
AttemptReturns ==
    /\ rq.pc = "retry"
    /\ \E response \in Responses :
         \E r \in {_do(response)} :
            /\ r.exc = ""
            /\ rq' = [rq EXCEPT !.pc = "returned", !.log = Append(@, ""),
                                !.result = r.result]
    /\ UNCHANGED <<batch, client, fills, rk, sm>>

\* lines 71-75: an attempt raises; the exception is kept, the loop sleeps
\* (retry_base_delay is not negative, so the sleep returns) and either
\* tries again or, with no attempt left, ends in AIClientError
AttemptRaises ==
    /\ rq.pc = "retry"
    /\ \E response \in Responses :
         \E r \in {_do(response)} :
            /\ r.exc # ""
            /\ rq' = IF attempts_left(client, Len(rq.log) + 1)
                     THEN [rq EXCEPT !.log = Append(@, r.exc)]
                     ELSE [rq EXCEPT !.pc = "raised", !.log = Append(@, r.exc),
                                     !.exc = "AIClientError"]
    /\ UNCHANGED <<batch, client, fills, rk, sm>>

NextClient == Refuse \/ Enter \/ AttemptReturns \/ AttemptRaises

SpecClient == InitClient /\ [][NextClient]_vars

-----------------------------------------------------------------------------
(* Properties                                                              *)

Calls == 1..Len(history)
Rows == 1..Len(records)

\* the text the oracle put in a field: its string, stripped; empty for an
\* absent or null field
FieldText(j) == IF j.t = "str" THEN Strip(j.str) ELSE <<>>

Answered(h) == h.outcome.kind = "return" /\ h.outcome.result.shape = "obj"
FirstOrEmpty(candidates) == IF candidates # <<>> THEN candidates[1] ELSE <<>>

\* C1: the best_new_url of every row is the empty string or one of the
\* candidates offered for that row, whatever the oracle did and whatever the
\* shortlist, the empty one included.
C1_BestFromShortlist ==
    \A i \in Rows :
        \/ records[i].best_new_url = <<>>
        \/ records[i].best_new_url \in Range(records[i].candidates)

\* C2: no oracle response and no oracle failure makes ai_match raise, so
\* run_matching is never left by an exception.
C2_NeverAborts ==
    /\ pc # "raised"
    /\ \A i \in Calls : history[i].exc = ""

\* C3: when chat_json raises, ai_match returns the first candidate (the
\* empty string for an empty shortlist), confidence 0.0 and a rationale that
\* starts with "fallback: ".
C3_FallbackOnFailure ==
    \A i \in Calls :
        history[i].outcome.kind = "raise" =>
            /\ history[i].exc = ""
            /\ history[i].match.best_new_url = FirstOrEmpty(history[i].candidates)
            /\ history[i].match.confidence = 0
            /\ StartsWith(history[i].match.rationale, FallbackPrefix)
            /\ Len(history[i].match.rationale) > Len(FallbackPrefix)

C3_Witness ==
    \E i \in Calls :
        /\ history[i].outcome.kind = "raise"
        /\ Len(history[i].candidates) >= 2
        /\ i \in Rows
        /\ records[i].best_new_url = history[i].candidates[1]

C5_EmptyPoolRows ==
    new_urls = <<>> =>
        /\ \A i \in Rows : /\ records[i].best_new_url = <<>>
                           /\ records[i].confidence = 0
        /\ pc \in {"done", "raised"} => Len(records) = Len(rows)

\* C6: the confidence of every record lies in [0, 1].
C6_ConfidenceInRange ==
    \A i \in Rows : records[i].confidence >= 0 /\ records[i].confidence <= 100

C8_OneRecordPerInput ==
    pc \in {"done", "raised"} =>
        LET retained == IF mode = "test" THEN Take(old_urls, TestCap) ELSE old_urls
        IN  /\ pc = "done"
            /\ Len(records) = Len(retained)
            /\ \A i \in Rows : records[i].old_url = retained[i]
            /\ Len(history) = Len(retained)
            /\ \A i \in Calls : history[i].old_url = retained[i]

\* the rows before row i (1-based) that agree with it on a column
EarlierOld(i) == {j \in 1..(i - 1) : records[j].old_url = records[i].old_url}
EarlierNew(i) ==
    {j \in 1..(i - 1) : records[j].best_new_url = records[i].best_new_url}

\* C9: in the annotated records, source_dup_of of a row is set exactly when
\* an earlier row has the same old_url, dest_dup_of exactly when
\* best_new_url is non-empty and an earlier row has the same best_new_url,
\* and the value is the spreadsheet row (0-based index + 2) of the earliest
\* such row, so it always names a strictly earlier row.
C9_FirstSeenWins ==
    pc = "done" =>
        \A i \in Rows :
            /\ records[i].source_dup_of =
                  IF EarlierOld(i) = {} THEN <<>>
                  ELSE <<(SetMin(EarlierOld(i)) - 1) + 2>>
            /\ records[i].dest_dup_of =
                  IF records[i].best_new_url = <<>> \/ EarlierNew(i) = {} THEN <<>>
                  ELSE <<(SetMin(EarlierNew(i)) - 1) + 2>>
            /\ \A ref \in Range(records[i].source_dup_of)
                          \cup Range(records[i].dest_dup_of) : ref < (i - 1) + 2

C9_Witness ==
    /\ pc = "done"
    /\ \E i \in Rows :
          /\ Cardinality(EarlierOld(i)) >= 2
          /\ Cardinality(EarlierNew(i)) >= 2
          /\ records[i].source_dup_of # <<>>
          /\ records[i].dest_dup_of # <<>>
          /\ records[i].source_dup_of # records[i].dest_dup_of

\* C10: applying annotate_duplicates to records it has already annotated
\* changes nothing: the same source_dup_of and dest_dup_of on every row, the
\* same other columns, the same row order.
C10_AnnotateIdempotent ==
    [][(pc = "done" /\ pc' = "done") => records' = records]_vars

C10_Witness ==
    /\ pc = "done"
    /\ reruns >= 1
    /\ \E i \in Rows : records[i].source_dup_of # <<>>
    /\ \E i \in Rows : records[i].dest_dup_of # <<>>


-----------------------------------------------------------------------------
(* Properties of the ranker and the classifier                             *)

Ranked == rk.op = "ranked"
Classified == rk.op = "classified"

\* the segment roots the augmentation of lines 264-270 tries to append
Fallbacks(old_url, pool) ==
    IF get_primary_segment(old_url) # <<>>
    THEN Take(SegmentRoots(pool, get_primary_segment(old_url)), MaxFallback)
    ELSE <<>>

\* C11: the shortlist top_k_candidates returns never has more than k
\* entries, for every old URL, pool and k >= 0, the calls whose
\* augmentation found a segment root to append and the call with
\* run_matching's k = 20 on a pool of more than 20 URLs included.
C11_AtMostK == Ranked => Len(rk.shortlist) <= rk.k

\* a full shortlist from a larger pool, with a segment root of the old
\* URL's primary segment that the top k did not hold
C11_Witness ==
    /\ Ranked
    /\ rk.k >= 1
    /\ Len(rk.pool) > rk.k
    /\ Len(rk.shortlist) = rk.k
    /\ \E i \in 1..Len(Fallbacks(rk.url, rk.pool)) :
          Fallbacks(rk.url, rk.pool)[i] \notin Range(rk.shortlist)


-----------------------------------------------------------------------------
(* Properties of the records, continued                                    *)

\* C12 as stated: for every record, low_confidence is true exactly when
\* confidence < min_confidence, and the rationale is the match rationale
\* with " | below_min_confidence<threshold>" appended exactly when
\* low_confidence is true, the unmodified match rationale otherwise.
C12_SuffixAppended ==
    \A i \in Rows :
        LET m == history[i].match
            low == m.confidence < min_confidence
        IN  /\ records[i].low_confidence = low
            /\ records[i].rationale =
                   IF low THEN m.rationale \o BelowSuffix(min_confidence)
                   ELSE m.rationale

\* C12, amended: low_confidence is true exactly when confidence <
\* min_confidence; a low-confidence record's rationale is the match
\* rationale followed by " | below_min_confidence<threshold>" when the match
\* rationale is not empty and "| below_min_confidence<threshold>", without
\* the leading space, when it is empty; any other record keeps the match
\* rationale; and a record of confidence 0.0 is low-confidence whenever the
\* threshold is positive.
C12_SuffixAppendedThenStripped ==
    \A i \in Rows :
        LET m == history[i].match
            low == m.confidence < min_confidence
        IN  /\ records[i].confidence = m.confidence
            /\ records[i].low_confidence = low
            /\ records[i].rationale =
                   IF ~low THEN m.rationale
                   ELSE IF m.rationale = <<>>
                        THEN Tail(BelowSuffix(min_confidence))
                        ELSE m.rationale \o BelowSuffix(min_confidence)
            /\ (m.confidence = 0 /\ min_confidence > 0
                    => records[i].low_confidence)

\* a low-confidence record whose match had no rationale, and a fallback
\* record marked under a positive threshold
C12_Witness ==
    /\ min_confidence > 0
    /\ \E i \in Rows :
          /\ records[i].low_confidence
          /\ history[i].match.rationale = <<>>
          /\ records[i].rationale = Tail(BelowSuffix(min_confidence))


\* str.lower on the letters the inputs use
LowerCase ==
    "A" :> "a" @@ "B" :> "b" @@ "C" :> "c" @@ "D" :> "d" @@ "E" :> "e" @@
    "F" :> "f" @@ "G" :> "g" @@ "H" :> "h" @@ "I" :> "i" @@ "J" :> "j" @@
    "K" :> "k" @@ "L" :> "l" @@ "M" :> "m" @@ "N" :> "n" @@ "O" :> "o" @@
    "P" :> "p" @@ "Q" :> "q" @@ "R" :> "r" @@ "S" :> "s" @@ "T" :> "t" @@
    "U" :> "u" @@ "V" :> "v" @@ "W" :> "w" @@ "X" :> "x" @@ "Y" :> "y" @@
    "Z" :> "z"

Lower(s) ==
    [i \in 1..Len(s) |-> IF s[i] \in DOMAIN LowerCase THEN LowerCase[s[i]]
                         ELSE s[i]]

\* C13: is_category_or_brand_page is true exactly when some path segment,
\* compared without regard to case, contains a category keyword as a
\* substring, or the path has exactly 2 or 3 segments; a "Brands" or
\* "CATEGORY" segment classifies like its lower-case form.
C13_CaseInsensitive ==
    Classified =>
        LET segments == extract_segments(rk.url)
        IN  rk.flag <=>
              \/ \E i \in 1..Len(segments) :
                    \E keyword \in category_keywords :
                       Contains(Lower(segments[i]), keyword)
              \/ Len(segments) \in {2, 3}


-----------------------------------------------------------------------------
(* Properties of a whole run                                               *)

\* C14: a configuration error (missing credentials, missing model or
\* deployment, unsupported provider) is fatal at startup: it is surfaced
\* before the first old URL is ranked or sent to the oracle, and is never
\* met inside the per-row loop, where it would become a fallback row.
C14_ConfigErrorFatalAtStartup ==
    config_error(client) # NoError =>
        /\ pc \in {"main", "wizard", "ask", "exit"}
        /\ history = <<>>
        /\ records = <<>>


-----------------------------------------------------------------------------
(* Properties of parse_multiple_sitemaps                                   *)

\* the URLs of the files that parsed, file after file in the order given
RECURSIVE Contributed(_)
Contributed(paths) ==
    IF paths = <<>> THEN <<>>
    ELSE Contributed(SubSeq(paths, 1, Len(paths) - 1))
         \o (IF paths[Len(paths)].wellformed
             THEN LocUrls(paths[Len(paths)].locs) ELSE <<>>)

FirstIndex(seq, u) == SetMin({i \in 1..Len(seq) : seq[i] = u})

\* C15: parse_multiple_sitemaps returns a pool with no repeated URL, whose
\* URLs are exactly those of the files that parsed, in the order of their
\* first occurrence across the files in the order given; a file that fails
\* to parse contributes no URL and the files after it are still read.
C15_UniqueInFirstSeenOrder ==
    sm.pc = "returned" =>
        LET all == Contributed(sm.sitemap_paths)
            out == sm.unique_urls
        IN  /\ sm.done = Len(sm.sitemap_paths)
            /\ \A i, j \in 1..Len(out) : i # j => out[i] # out[j]
            /\ Range(out) = Range(all)
            /\ \A i, j \in 1..Len(out) :
                  i < j => FirstIndex(all, out[i]) < FirstIndex(all, out[j])

\* a returned pool built from a file that failed between two that parsed,
\* with a URL repeated across the files and a URL only the failed file held
C15_Witness ==
    /\ sm.pc = "returned"
    /\ \E f \in sm.failed :
          /\ \E a, b \in 1..Len(sm.sitemap_paths) :
                a < f /\ f < b /\ a \notin sm.failed /\ b \notin sm.failed
                /\ Range(LocUrls(sm.sitemap_paths[b].locs)) \subseteq Range(sm.unique_urls)
                /\ LocUrls(sm.sitemap_paths[b].locs) # <<>>
          /\ \E u \in Range(LocUrls(sm.sitemap_paths[f].locs)) :
                u \notin Range(sm.unique_urls)
    /\ Len(sm.unique_urls) < Len(sm.all_urls)


\* C16: every row of the saved workbook gets at most one fill, the first
\* that applies of: source_dup_of set (red), dest_dup_of set (yellow),
\* low_confidence true (orange); a row none applies to gets no fill, and
\* fills are never combined.
C16_OneFillByPrecedence ==
    pc = "saved" =>
        /\ Len(fills) = Len(records)
        /\ \A i \in Rows :
              /\ fills[i] \in {Red, Yellow, Orange, NoFill}
              /\ fills[i] = Red <=> records[i].source_dup_of # <<>>
              /\ fills[i] = Yellow <=>
                    /\ records[i].source_dup_of = <<>>
                    /\ records[i].dest_dup_of # <<>>
              /\ fills[i] = Orange <=>
                    /\ records[i].source_dup_of = <<>>
                    /\ records[i].dest_dup_of = <<>>
                    /\ records[i].low_confidence

\* a saved workbook with a row all three conditions apply to, a row that
\* is a destination duplicate of low confidence and a row that is only of
\* low confidence
C16_Witness ==
    /\ pc = "saved"
    /\ \E i, j, k \in Rows :
          /\ records[i].source_dup_of # <<>>
          /\ records[i].dest_dup_of # <<>>
          /\ records[i].low_confidence
          /\ fills[i] = Red
          /\ records[j].source_dup_of = <<>>
          /\ records[j].dest_dup_of # <<>>
          /\ records[j].low_confidence
          /\ fills[j] = Yellow
          /\ records[k].source_dup_of = <<>>
          /\ records[k].dest_dup_of = <<>>
          /\ records[k].low_confidence
          /\ fills[k] = Orange


-----------------------------------------------------------------------------
(* Properties of the ranker, continued                                     *)

\* lines 255-258: the finalScore of one pool URL
final_score(old_url, new_url) ==
    segment_aware_score(old_url, new_url,
        heuristic_score(extract_slug(old_url), extract_slug(new_url)))

\* how many times seq[i] has occurred in seq up to and including place i
Occurrence(seq, i) == Cardinality({j \in 1..i : seq[j] = seq[i]})

\* the places of the pool that hold the n-th occurrence of u
PoolPlaces(pool, u, n) ==
    {m \in 1..Len(pool) :
        pool[m] = u /\ Cardinality({j \in 1..m : pool[j] = u}) = n}

\* every entry of the shortlist is an entry of the pool, a URL the pool
\* repeats taken at most as often as the pool holds it
FromPool ==
    \A i \in 1..Len(rk.shortlist) :
        PoolPlaces(rk.pool, rk.shortlist[i], Occurrence(rk.shortlist, i)) # {}

\* the place in the pool the i-th entry of the shortlist was taken from
PoolPlace(i) ==
    CHOOSE m \in PoolPlaces(rk.pool, rk.shortlist[i], Occurrence(rk.shortlist, i)) :
        TRUE

\* pool place a is ranked before pool place b: a higher finalScore, or the
\* same finalScore and an earlier place
RankedBefore(a, b) ==
    LET sa == final_score(rk.url, rk.pool[a])
        sb == final_score(rk.url, rk.pool[b])
    IN  sa > sb \/ (sa = sb /\ a < b)

\* C17: the shortlist is ordered by non-increasing finalScore, and
\* candidates of equal finalScore keep the order they have in the pool.
C17_DescendingAndStable ==
    Ranked =>
        /\ FromPool
        /\ \A i, j \in 1..Len(rk.shortlist) :
              i < j => RankedBefore(PoolPlace(i), PoolPlace(j))

\* a shortlist with two different URLs of equal finalScore, and with an
\* entry that overtook one standing before it in the pool
C17_Witness ==
    /\ Ranked
    /\ FromPool
    /\ \E i, j \in 1..Len(rk.shortlist) :
          /\ i < j
          /\ rk.shortlist[i] # rk.shortlist[j]
          /\ final_score(rk.url, rk.shortlist[i]) = final_score(rk.url, rk.shortlist[j])
    /\ \E i, j \in 1..Len(rk.shortlist) :
          i < j /\ PoolPlace(i) > PoolPlace(j)

\* C18: whenever the old URL has a non-empty primary segment, k >= 1 and
\* the pool holds a one-segment URL of that primary segment (a segment
\* root), the shortlist holds such a segment root, whatever the size of
\* the pool.
C18_SegmentRootOffered ==
    (/\ Ranked
     /\ rk.k >= 1
     /\ get_primary_segment(rk.url) # <<>>
     /\ SegmentRoots(rk.pool, get_primary_segment(rk.url)) # <<>>)
    => \E i \in 1..Len(rk.shortlist) :
          rk.shortlist[i] \in Range(SegmentRoots(rk.pool, get_primary_segment(rk.url)))

Min(a, b) == IF a < b THEN a ELSE b

-----------------------------------------------------------------------------
(* Properties of AIClient.chat_json                                        *)

AllFailed == \A i \in 1..Len(rq.log) : rq.log[i] # ""

\* C19: chat_json fails only with AIClientError.  Whatever exception an
\* attempt raises, it is retried; the request function is invoked at most
\* max_retries times; the first attempt that succeeds ends the call with
\* its result and no further attempt; and once a request is being made
\* AIClientError is raised exactly when all max_retries invocations have
\* failed (at once when max_retries is 0).
C19_RetriesThenAIClientError ==
    /\ Len(rq.log) <= client.max_retries
    /\ rq.exc \in {"", "AIClientError"}
    /\ rq.pc = "raised" <=> rq.exc = "AIClientError"
    /\ rq.pc = "retry" => AllFailed /\ Len(rq.log) < client.max_retries
    /\ rq.pc = "returned" =>
          /\ Len(rq.log) >= 1
          /\ rq.log[Len(rq.log)] = ""
          /\ \A i \in 1..(Len(rq.log) - 1) : rq.log[i] # ""
          /\ rq.result.shape # "none"
    /\ rq.pc = "raised" =>
          /\ AllFailed
          /\ IF config_error(client) # NoError THEN rq.log = <<>>
             ELSE Len(rq.log) = client.max_retries
    /\ (rq.pc # "call" /\ config_error(client) = NoError /\ AllFailed
            /\ Len(rq.log) = client.max_retries)
          => rq.pc = "raised"

\* a call that ended in AIClientError after max_retries >= 2 attempts that
\* raised other exceptions, one of them not an AIClientError
C19_Witness ==
    /\ rq.pc = "raised"
    /\ client.max_retries >= 2
    /\ Len(rq.log) = client.max_retries
    /\ \E i \in 1..Len(rq.log) : rq.log[i] \notin {"", "AIClientError"}

====
